---- MODULE Spec2Model ----
(***************************************************************************)
(* A model of bpcsync (src/src/bpc.rs): the BPC time-code encoder          *)
(* (BPC::code, BPC::signal_width) and the synchronized wave generator      *)
(* (BPCWaveInner, BPCWave: an updater thread and a renderer sharing one    *)
(* Mutex<BPCWaveInner>).                                                   *)
(***************************************************************************)
EXTENDS Integers, Sequences, FiniteSets, TLC

VARIABLES
    t,          \* encoder: the timestamp handed to BPC::signal_width
    sym,        \* encoder: what BPC::code returned for t (or a panic)
    width,      \* encoder: what BPC::signal_width returned for t
    frame,      \* encoder: fragment -> the symbol transmitted in the current
                \*   20-second frame (history)
    upc,        \* updater thread: its position in the loop of BPCWave::new
    unow,       \* updater thread: its local `now`, the argument of update
    rpc,        \* renderer: its position in BPCWave::next
    owner,      \* who holds the Mutex<BPCWaveInner>
    poisoned,   \* the mutex is poisoned: a thread panicked while holding it
    updating,   \* BPCWaveInner.updating
    pivot,      \* BPCWaveInner.pivot
    num_samples,\* BPCWaveInner.num_samples
    out,        \* the sample the render call in progress returns
    lastWidth,  \* history: signal_width(t) of the last update that wrote pivot
    lastBlank,  \* history: that update's t was a frame marker (:00, :20, :40)
    overflowed, \* history: a u32 multiplication in update overflowed
    rendered,   \* history: render calls answered since the last counter reset
    issuedInUpdate, \* history: the render call in progress was issued while
                \*   the updating flag was set
    waited,     \* history: updates finished while the render call in progress
                \*   was waiting for the mutex
    clock,      \* timed updater: the wall clock, [sec, ns]
    tpc,        \* timed updater: its position in the loop of BPCWave::new
    tnow,       \* timed updater: the `now` its delay is computed from
    updates,    \* timed updater: second -> the updates computed from a
                \*   timestamp read in that second (history)
    onTime,     \* timed updater: every wake-up and lock acquisition so far
                \*   came less than 1 s after the targeted boundary (history)
    loopOnTime  \* timed updater: every cycle's first clock reading so far was
                \*   taken in the second the generator was created or last
                \*   updated in (history)

encVars == <<t, sym, width, frame>>

waveVars == <<upc, unow, rpc, owner, poisoned, updating, pivot, num_samples,
              out, lastWidth, lastBlank, overflowed, rendered, issuedInUpdate>>

timeVars == <<clock, tpc, tnow, updates, onTime, loopOnTime>>

genVars == <<upc, unow, rpc, owner, poisoned, updating, pivot, num_samples, out,
             lastWidth, lastBlank, overflowed, rendered, issuedInUpdate, waited,
             clock, tpc, tnow, updates, onTime, loopOnTime>>

vars == <<t, sym, width, frame, upc, unow, rpc, owner, poisoned, updating,
          pivot, num_samples, out, lastWidth, lastBlank, overflowed, rendered,
          issuedInUpdate, waited, clock, tpc, tnow, updates, onTime, loopOnTime>>

-----------------------------------------------------------------------------
(* Bounds of the model *)

\* the last calendar year of the date slice (two-digit year LastYear - 2000)
LastYear == 2099

-----------------------------------------------------------------------------
(* Option values and panics *)

Some(v) == [tag |-> "Some", val |-> v]
None == [tag |-> "None", val |-> 0]
Panic == [tag |-> "Panic", val |-> 0]
\* no call has been made yet
Unset == [tag |-> "Unset", val |-> 0]

-----------------------------------------------------------------------------
(* Integer helpers: Rust's >>, &, count_ones and `as u8` *)

RECURSIVE Pow2(_)
Pow2(n) == IF n = 0 THEN 1 ELSE 2 * Pow2(n - 1)

Shr(x, n) == x \div Pow2(n)

\* x & (2^n - 1)
LowBits(x, n) == x % Pow2(n)

RECURSIVE CountOnes(_)
CountOnes(x) == IF x = 0 THEN 0 ELSE (x % 2) + CountOnes(x \div 2)

AsU8(x) == x % 256

-----------------------------------------------------------------------------
(* chrono: the calendar fields of a DateTime<FixedOffset> *)

IsLeap(y) == (y % 4 = 0 /\ y % 100 # 0) \/ y % 400 = 0

DaysInMonth(y, m) ==
    IF m = 2 THEN (IF IsLeap(y) THEN 29 ELSE 28)
    ELSE IF m \in {4, 6, 9, 11} THEN 30 ELSE 31

\* leap years among 1 .. y
LeapsUpTo(y) == (y \div 4) - (y \div 100) + (y \div 400)

\* days from 2000-01-01 to the first day of year y
DaysBeforeYear(y) == 365 * (y - 2000) + LeapsUpTo(y - 1) - LeapsUpTo(1999)

RECURSIVE DaysBeforeMonth(_, _)
DaysBeforeMonth(y, m) ==
    IF m = 1 THEN 0 ELSE DaysBeforeMonth(y, m - 1) + DaysInMonth(y, m - 1)

\* now.weekday().number_from_monday(): 1 = Monday .. 7 = Sunday
\* (2000-01-01 was a Saturday)
Weekday(now) ==
    ((DaysBeforeYear(now.year) + DaysBeforeMonth(now.year, now.month)
        + (now.day - 1) + 5) % 7) + 1

\* now.hour12(): (pm, hour in 1..12)
Hour12(now) ==
    [pm |-> now.hour >= 12,
     hour |-> IF now.hour % 12 = 0 THEN 12 ELSE now.hour % 12]

-----------------------------------------------------------------------------
(* BPC::code, fragment by fragment *)

\* a faulty fragment 1: the ids of the second and third frame swapped
SuperFrameSwapped(second) ==
    CASE second = 1 -> Some(AsU8(0))
      [] second = 21 -> Some(AsU8(2))
      [] second = 41 -> Some(AsU8(1))
      [] OTHER -> Panic

\* fragment 1: seconds 01 / 21 / 41
SuperFrame(second) ==
    CASE second = 1 -> Some(AsU8(0))
      [] second = 21 -> Some(AsU8(1))
      [] second = 41 -> Some(AsU8(2))
      [] OTHER -> Panic

HourHigh(hour) == Some(AsU8(Shr(hour, 2)))

\* a faulty fragment 4: the mask & 0b11 forgotten
HourLowNoMask(hour) == Some(AsU8(hour))

HourLow(hour) == Some(AsU8(LowBits(hour, 2)))

MinuteHigh(minute) == Some(AsU8(Shr(minute, 4)))

\* a faulty fragment 6: the mask & 0b11 forgotten
MinuteMiddleNoMask(minute) == Some(AsU8(Shr(minute, 2)))

MinuteMiddle(minute) == Some(AsU8(LowBits(Shr(minute, 2), 2)))

MinuteLow(minute) == Some(AsU8(LowBits(minute, 2)))

WeekdayHigh(weekday) == Some(AsU8(Shr(weekday, 2)))
WeekdayLow(weekday) == Some(AsU8(LowBits(weekday, 2)))

\* vec![a, b, ..].into_iter().reduce(|acc, e| acc + e.count_ones()).unwrap():
\* the first element is the initial accumulator, taken as it is
RECURSIVE ReduceCountOnes(_)
ReduceCountOnes(v) ==
    IF Len(v) = 1 THEN v[1]
    ELSE ReduceCountOnes(SubSeq(v, 1, Len(v) - 1)) + CountOnes(v[Len(v)])

\* the second range of fragment 10
SecondRange(second) ==
    CASE second \in 1..20 -> Some(0)
      [] second \in 21..40 -> Some(1)
      [] second \in 41..59 -> Some(3)
      [] OTHER -> Panic

\* fragment 10: check & am/pm
CheckAmPm(pm, hour, minute, weekday, second) ==
    LET v0 == IF pm THEN 2 ELSE 0
        s == SecondRange(second)
    IN  IF s = Panic THEN Panic
        ELSE LET c == ReduceCountOnes(<<s.val, hour, minute, weekday>>)
             IN  Some(v0 + (IF c % 2 = 0 THEN 0 ELSE 1))

DayHigh(day) == Some(AsU8(Shr(day, 4)))
DayMiddle(day) == Some(AsU8(LowBits(Shr(day, 2), 2)))
DayLow(day) == Some(AsU8(LowBits(day, 2)))

MonthHigh(month) == Some(AsU8(Shr(month, 2)))
MonthLow(month) == Some(AsU8(LowBits(month, 2)))

YearHigh(year) == Some(AsU8(LowBits(Shr(year, 4), 2)))
YearMiddle(year) == Some(AsU8(LowBits(Shr(year, 2), 2)))
YearLow(year) == Some(AsU8(LowBits(year, 2)))

\* fragment 19: check & year highest bit
CheckYear(day, month, year) ==
    LET year_highest == LowBits(Shr(year, 6), 1)
        v0 == year_highest * 2
        c == ReduceCountOnes(<<day, month, LowBits(year, 6)>>)
    IN  Some(AsU8(v0 + (IF c % 2 = 0 THEN 0 ELSE 1)))

Code(now) ==
    LET year == now.year - 2000
        month == now.month
        day == now.day
        weekday == Weekday(now)
        pm == Hour12(now).pm
        hour == Hour12(now).hour
        minute == now.minute
        second == now.second
        fragment == second % 20
    IN  CASE fragment = 0 -> None
          [] fragment = 1 -> SuperFrame(second)
          [] fragment = 2 -> Some(0)
          [] fragment = 3 -> HourHigh(hour)
          [] fragment = 4 -> HourLow(hour)
          [] fragment = 5 -> MinuteHigh(minute)
          [] fragment = 6 -> MinuteMiddle(minute)
          [] fragment = 7 -> MinuteLow(minute)
          [] fragment = 8 -> WeekdayHigh(weekday)
          [] fragment = 9 -> WeekdayLow(weekday)
          [] fragment = 10 -> CheckAmPm(pm, hour, minute, weekday, second)
          [] fragment = 11 -> DayHigh(day)
          [] fragment = 12 -> DayMiddle(day)
          [] fragment = 13 -> DayLow(day)
          [] fragment = 14 -> MonthHigh(month)
          [] fragment = 15 -> MonthLow(month)
          [] fragment = 16 -> YearHigh(year)
          [] fragment = 17 -> YearMiddle(year)
          [] fragment = 18 -> YearLow(year)
          [] fragment = 19 -> CheckYear(day, month, year)
          [] OTHER -> Panic

\* a faulty signal_width: the arm of 0b11 missing
WidthOfSymbolNoThree(c) ==
    CASE c = Some(0) -> Some(100)
      [] c = Some(1) -> Some(200)
      [] c = Some(2) -> Some(300)
      [] c = None -> None
      [] OTHER -> Panic

\* BPC::signal_width's match on the symbol
WidthOfSymbol(c) ==
    CASE c = Some(0) -> Some(100)
      [] c = Some(1) -> Some(200)
      [] c = Some(2) -> Some(300)
      [] c = Some(3) -> Some(400)
      [] c = None -> None
      [] OTHER -> Panic

SignalWidth(now) == WidthOfSymbol(Code(now))

-----------------------------------------------------------------------------
(* The encoder driven through the seconds of a minute *)

Timestamp(y, mo, d, h, mi, s) ==
    [year |-> y, month |-> mo, day |-> d,
     hour |-> h, minute |-> mi, second |-> s]

\* every time of day of the week 2024-03-11 (Monday) .. 2024-03-17 (Sunday),
\* at the start of a minute
TimeSlice ==
    {Timestamp(2024, 3, d, h, mi, 0) : d \in 11..17, h \in 0..23, mi \in 0..59}

\* every date of 2000 .. LastYear, at 14:07:50 (the seconds that carry the
\* date follow)
DateSlice ==
    {x \in {Timestamp(y, mo, d, 14, 7, 50) :
                y \in 2000..LastYear, mo \in 1..12, d \in 1..31} :
        x.day <= DaysInMonth(x.year, x.month)}

\* no timestamp (a local not yet assigned)
NoTime == Timestamp(0, 0, 0, 0, 0, 0)

Fragments == 0..19

\* the wall clock: seconds since the second the generator is created in, and
\* the nanoseconds since the last second boundary
Time(sec, ns) == [sec |-> sec, ns |-> ns]

\* the timed updater is followed through the seconds 0 .. MaxSecond
MaxSecond == 3

\* the timed updater before its first step, the generator created at time c
InitTimed(c) ==
    /\ clock = c
    /\ tpc = "read"
    /\ tnow = Time(0, 0)
    /\ updates = [s \in 0..MaxSecond |-> 0]
    /\ onTime = TRUE
    /\ loopOnTime = TRUE

\* BPCWaveInner::new, and the threads before their first step
InitWave ==
    /\ upc = "sleep"
    /\ unow = NoTime
    /\ rpc = "idle"
    /\ owner = "none"
    /\ poisoned = FALSE
    /\ updating = FALSE
    /\ pivot = 0
    /\ num_samples = 0
    /\ out = [kind |-> "none", n |-> 0, fc |-> 0]
    /\ lastWidth = Unset
    /\ lastBlank = FALSE
    /\ overflowed = FALSE
    /\ rendered = 0
    /\ issuedInUpdate = FALSE
    /\ waited = 0

InitGen == InitWave /\ InitTimed(Time(0, 0))

InitEnc ==
    /\ t \in TimeSlice \cup DateSlice
    /\ sym = Unset
    /\ width = Unset
    /\ frame = [f \in Fragments |-> Unset]
    /\ InitGen

\* one call of signal_width(at), which calls code(at); the symbol goes on
\* the air
Transmit(at) ==
    LET c == Code(at)
    IN  /\ sym' = c
        /\ width' = WidthOfSymbol(c)
        /\ frame' = IF at.second % 20 = 0
                    THEN [f \in Fragments |-> IF f = 0 THEN c ELSE Unset]
                    ELSE [frame EXCEPT ![at.second % 20] = c]
        /\ t' = at
        /\ UNCHANGED genVars

\* the first second after the start
FirstSecond ==
    /\ sym = Unset
    /\ Transmit(t)

\* each following second of the minute
NextSecond ==
    /\ sym # Unset
    /\ t.second < 59
    /\ Transmit([t EXCEPT !.second = @ + 1])

NextEnc == FirstSecond \/ NextSecond

SpecEnc == InitEnc /\ [][NextEnc]_vars

-----------------------------------------------------------------------------
(* The wave generator: BPCWaveInner behind a Mutex, the updater thread of    *)
(* BPCWave::new and the renderer calling BPCWave::next                       *)

BPC_FREQ == 68500
SAMPLE_RATE == 44100

\* the updater's clock readings are the seconds of fragments 0 .. MaxFragment of
\* the three 20-second frames of 2024-03-15 19:40
MaxFragment == 4

\* the renderer is followed until the sample counter reaches MaxSamples
MaxSamples == 4411

\* and, after updates of a 300 ms pulse alone, until it reaches MaxWaveSamples
MaxWaveSamples == 13231

ClockReadings ==
    {Timestamp(2024, 3, 15, 19, 40, s) :
        s \in {x \in 0..59 : x % 20 <= MaxFragment}}

\* the clock readings of a 300 ms pulse: second 41, the symbol 2 of fragment 1
WaveReadings == {Timestamp(2024, 3, 15, 19, 40, 41)}

\* a faulty unwrap: a forged 100 ms pulse for "no pulse width"
UnwrapOrForged(w) == IF w.tag = "Some" THEN w.val ELSE 100

\* Option<u32>::unwrap_or(0) of update
UnwrapOr0(w) == IF w.tag = "Some" THEN w.val ELSE 0

\* one step of the long division of u32::MAX (four base-256 digits 255) by b
DivStep(qr, b) ==
    LET r == qr[2] * 256 + 255
    IN  <<qr[1] * 256 + (r \div b), r % b>>

\* u32::MAX / b
U32MaxDiv(b) == DivStep(DivStep(DivStep(DivStep(<<0, 0>>, b), b), b), b)[1]

\* the u32 product a * b does not fit 32 bits (a panic in a debug build, a
\* wrapped product in a release build)
MulOverflows(a, b) == a > U32MaxDiv(b)

\* a faulty pivot: the division before the multiplication
PivotOfDivFirst(w) == (UnwrapOr0(w) \div 1000) * SAMPLE_RATE

\* (width.unwrap_or(0) * SAMPLE_RATE / 1000) as usize, the product fitting
\* 32 bits
PivotOf(w) == (UnwrapOr0(w) * SAMPLE_RATE) \div 1000

\* let fc = BPC_FREQ / 5
CarrierFreq == BPC_FREQ \div 5

\* the samples BPCWaveInner::next returns: 0.0, 1.0, and
\* sin(2.0 * PI * fc * n / SAMPLE_RATE), kept as the pair of fc and n
Muted == [kind |-> "muted", n |-> 0, fc |-> 0]
Placeholder == [kind |-> "placeholder", n |-> 0, fc |-> 0]
Carrier(n) == [kind |-> "carrier", n |-> n, fc |-> CarrierFreq]
NoSample == [kind |-> "none", n |-> 0, fc |-> 0]

\* a faulty branch: the carrier before the pivot and 0.0 after it
SampleOfSwapped(n, p) == IF n >= p THEN Muted ELSE Carrier(n)

\* the branch of BPCWaveInner::next after the increment
SampleOf(n, p) == IF n >= p THEN Carrier(n) ELSE Muted

\* a faulty updater: the shared state written without waiting for the mutex
UpdaterLockNoWait == TRUE

\* Mutex::lock returns only when nobody holds the mutex
UpdaterMayLock == owner = "none"

\* a faulty renderer: the shared state read without waiting for the mutex
RenderLockNoWait == TRUE

RenderMayLock == owner = "none"

Init ==
    /\ t = NoTime
    /\ sym = Unset
    /\ width = Unset
    /\ frame = [f \in Fragments |-> Unset]
    /\ InitGen

(* the updater thread *)

\* let now = cst(); let delta = ..; thread::sleep(..)
USleep ==
    /\ upc = "sleep"
    /\ upc' = "now"
    /\ UNCHANGED <<encVars, timeVars, waited,
                   unow, rpc, owner, poisoned, updating, pivot,
                   num_samples, out, lastWidth, lastBlank, overflowed,
                   rendered, issuedInUpdate>>

\* let now = cst(), the clock showing one of the readings
UNowFrom(readings) ==
    /\ upc = "now"
    /\ \E r \in readings : unow' = r
    /\ upc' = "lock"
    /\ UNCHANGED <<encVars, timeVars, waited,
                   rpc, owner, poisoned, updating, pivot,
                   num_samples, out, lastWidth, lastBlank, overflowed,
                   rendered, issuedInUpdate>>

UNow == UNowFrom(ClockReadings)

\* let now = cst() in a second with a 300 ms pulse
UNowWave == UNowFrom(WaveReadings)

\* inner.lock().unwrap(): a poisoned mutex makes unwrap panic
ULock ==
    /\ upc = "lock"
    /\ UpdaterMayLock
    /\ IF poisoned
       THEN /\ upc' = "panicked"
            /\ owner' = owner
       ELSE /\ upc' = "store_true"
            /\ owner' = "updater"
    /\ UNCHANGED <<encVars, timeVars, waited,
                   unow, rpc, poisoned, updating, pivot,
                   num_samples, out, lastWidth, lastBlank, overflowed,
                   rendered, issuedInUpdate>>

\* update: self.updating.store(true)
UStoreTrue ==
    /\ upc = "store_true"
    /\ updating' = TRUE
    /\ upc' = "pivot"
    /\ UNCHANGED <<encVars, timeVars, waited,
                   unow, rpc, owner, poisoned, pivot, num_samples,
                   out, lastWidth, lastBlank, overflowed, rendered,
                   issuedInUpdate>>

\* update:
\*   self.pivot = (signal_width(t).unwrap_or(0) * SAMPLE_RATE / 1000) as usize
\* (a panic of signal_width, or of the multiplication, unwinds the thread: the
\* guard is dropped and the mutex is left poisoned)
UPivot ==
    /\ upc = "pivot"
    /\ LET w == SignalWidth(unow)
       IN  IF w = Panic \/ MulOverflows(UnwrapOr0(w), SAMPLE_RATE)
           THEN /\ overflowed' = (overflowed \/ w # Panic)
                /\ upc' = "panicked"
                /\ owner' = "none"
                /\ poisoned' = TRUE
                /\ UNCHANGED <<pivot, lastWidth, lastBlank, unow>>
           ELSE /\ pivot' = PivotOf(w)
                /\ lastWidth' = w
                /\ lastBlank' = (unow.second % 20 = 0)
                /\ unow' = NoTime
                /\ upc' = "reset"
                /\ UNCHANGED <<owner, poisoned, overflowed>>
    /\ UNCHANGED <<encVars, timeVars, waited,
                   rpc, updating, num_samples, out, rendered,
                   issuedInUpdate>>

\* a faulty update: the counter is not reset
UResetForgotten ==
    /\ upc = "reset"
    /\ num_samples' = num_samples
    /\ rendered' = 0
    /\ upc' = "store_false"
    /\ UNCHANGED <<encVars, timeVars, waited,
                   unow, rpc, owner, poisoned, updating, pivot, out,
                   lastWidth, lastBlank, overflowed, issuedInUpdate>>

\* update: self.num_samples = 0
UReset ==
    /\ upc = "reset"
    /\ num_samples' = 0
    /\ rendered' = 0
    /\ upc' = "store_false"
    /\ UNCHANGED <<encVars, timeVars, waited,
                   unow, rpc, owner, poisoned, updating, pivot, out,
                   lastWidth, lastBlank, overflowed, issuedInUpdate>>

\* a faulty update: the flag is left set
UStoreFalseForgotten ==
    /\ upc = "store_false"
    /\ updating' = updating
    /\ upc' = "unlock"
    /\ UNCHANGED <<encVars, timeVars, waited,
                   unow, rpc, owner, poisoned, pivot, num_samples,
                   out, lastWidth, lastBlank, overflowed, rendered,
                   issuedInUpdate>>

\* update: self.updating.store(false)
UStoreFalse ==
    /\ upc = "store_false"
    /\ updating' = FALSE
    /\ upc' = "unlock"
    /\ UNCHANGED <<encVars, timeVars, waited,
                   unow, rpc, owner, poisoned, pivot, num_samples,
                   out, lastWidth, lastBlank, overflowed, rendered,
                   issuedInUpdate>>

\* the MutexGuard is dropped at the end of the statement; the loop starts over
UUnlock ==
    /\ upc = "unlock"
    /\ owner' = "none"
    /\ upc' = "sleep"
    /\ UNCHANGED <<encVars, timeVars, waited,
                   poisoned, unow, rpc, updating, pivot,
                   num_samples, out, lastWidth, lastBlank, overflowed,
                   rendered, issuedInUpdate>>

(* the renderer *)

\* the sink calls BPCWave::next, while fewer than max samples were counted
RCallUpTo(max) ==
    /\ rpc = "idle"
    /\ num_samples < max
    /\ rpc' = "lock"
    /\ issuedInUpdate' = updating
    /\ UNCHANGED <<encVars, timeVars, waited,
                   upc, unow, owner, poisoned, updating, pivot,
                   num_samples, out, lastWidth, lastBlank, overflowed,
                   rendered>>

RCall == RCallUpTo(MaxSamples)

\* the sink calls BPCWave::next through a 300 ms pulse and beyond
RCallWave == RCallUpTo(MaxWaveSamples)

\* self.inner.lock().unwrap(): a poisoned mutex makes unwrap panic
RLock ==
    /\ rpc = "lock"
    /\ RenderMayLock
    /\ IF poisoned
       THEN /\ rpc' = "panicked"
            /\ owner' = owner
       ELSE /\ rpc' = "check"
            /\ owner' = "renderer"
    /\ UNCHANGED <<encVars, timeVars, waited,
                   upc, unow, poisoned, updating, pivot,
                   num_samples, out, lastWidth, lastBlank, overflowed,
                   rendered, issuedInUpdate>>

\* BPCWaveInner::next: if self.updating.load() { return Some(1.) }
RCheck ==
    /\ rpc = "check"
    /\ IF updating
       THEN /\ out' = Placeholder
            /\ rendered' = rendered + 1
            /\ rpc' = "unlock"
       ELSE /\ out' = out
            /\ rendered' = rendered
            /\ rpc' = "sample"
    /\ UNCHANGED <<encVars, timeVars, waited,
                   upc, unow, owner, poisoned, updating, pivot,
                   num_samples, lastWidth, lastBlank, overflowed,
                   issuedInUpdate>>

\* BPCWaveInner::next: self.num_samples += 1; the carrier or 0.0
RSample ==
    /\ rpc = "sample"
    /\ num_samples' = num_samples + 1
    /\ out' = SampleOf(num_samples + 1, pivot)
    /\ rendered' = rendered + 1
    /\ rpc' = "unlock"
    /\ UNCHANGED <<encVars, timeVars, waited,
                   upc, unow, owner, poisoned, updating, pivot,
                   lastWidth, lastBlank, overflowed, issuedInUpdate>>

\* the MutexGuard is dropped; the sample goes to the sink
RReturn ==
    /\ rpc = "unlock"
    /\ owner' = "none"
    /\ out' = NoSample
    /\ issuedInUpdate' = FALSE
    /\ rpc' = "idle"
    /\ UNCHANGED <<encVars, timeVars, waited,
                   poisoned, upc, unow, updating, pivot,
                   num_samples, lastWidth, lastBlank, overflowed, rendered>>

Next ==
    \/ USleep
    \/ UNow
    \/ ULock
    \/ UStoreTrue
    \/ UPivot
    \/ UReset
    \/ UStoreFalse
    \/ UUnlock
    \/ RCall
    \/ RLock
    \/ RCheck
    \/ RSample
    \/ RReturn

Spec == Init /\ [][Next]_vars

\* the generator in seconds with a 300 ms pulse only, rendered past the pulse
NextWave ==
    \/ USleep
    \/ UNowWave
    \/ ULock
    \/ UStoreTrue
    \/ UPivot
    \/ UReset
    \/ UStoreFalse
    \/ UUnlock
    \/ RCallWave
    \/ RLock
    \/ RCheck
    \/ RSample
    \/ RReturn

SpecWave == Init /\ [][NextWave]_vars

-----------------------------------------------------------------------------
(* The generator rendered without end: the sample counter is followed up to  *)
(* MaxLiveSamples and the values beyond it are lumped together               *)

MaxLiveSamples == 3

\* the updates a waiting render call has seen finish are counted up to
\* MaxWaited
MaxWaited == 2

Min(a, b) == IF a <= b THEN a ELSE b

\* a faulty updater: the MutexGuard is never dropped
UUnlockLeaked ==
    /\ upc = "unlock"
    /\ upc' = "sleep"
    /\ UNCHANGED <<encVars, timeVars, waited, owner, poisoned, unow, rpc,
                   updating, pivot, num_samples, out, lastWidth, lastBlank,
                   overflowed, rendered, issuedInUpdate>>

\* the MutexGuard is dropped at the end of the statement; the loop starts
\* over; a render call waiting for the mutex has seen one more update finish
UUnlockLive ==
    /\ upc = "unlock"
    /\ owner' = "none"
    /\ upc' = "sleep"
    /\ waited' = IF rpc = "lock" THEN Min(waited + 1, MaxWaited) ELSE waited
    /\ UNCHANGED <<encVars, timeVars, poisoned, unow, rpc, updating, pivot,
                   num_samples, out, lastWidth, lastBlank, overflowed,
                   rendered, issuedInUpdate>>

\* the sink calls BPCWave::next, again and again
RCallLive ==
    /\ rpc = "idle"
    /\ rpc' = "lock"
    /\ issuedInUpdate' = updating
    /\ waited' = 0
    /\ UNCHANGED <<encVars, timeVars, upc, unow, owner, poisoned, updating,
                   pivot, num_samples, out, lastWidth, lastBlank, overflowed,
                   rendered>>

\* BPCWaveInner::next: self.num_samples += 1; the carrier or 0.0
RSampleLive ==
    /\ rpc = "sample"
    /\ num_samples' = Min(num_samples + 1, MaxLiveSamples)
    /\ out' = SampleOf(num_samples + 1, pivot)
    /\ rendered' = Min(rendered + 1, MaxLiveSamples)
    /\ rpc' = "unlock"
    /\ UNCHANGED <<encVars, timeVars, waited, upc, unow, owner, poisoned,
                   updating, pivot, lastWidth, lastBlank, overflowed,
                   issuedInUpdate>>

\* the steps of the updater thread
UpdaterLive ==
    \/ USleep
    \/ UNow
    \/ ULock
    \/ UStoreTrue
    \/ UPivot
    \/ UReset
    \/ UStoreFalse
    \/ UUnlockLive

\* the steps of the thread calling BPCWave::next
RendererLive ==
    \/ RCallLive
    \/ RLock
    \/ RCheck
    \/ RSampleLive
    \/ RReturn

NextLive ==
    \/ USleep
    \/ UNow
    \/ ULock
    \/ UStoreTrue
    \/ UPivot
    \/ UReset
    \/ UStoreFalse
    \/ UUnlockLive
    \/ RCallLive
    \/ RLock
    \/ RCheck
    \/ RSampleLive
    \/ RReturn

\* both threads keep running: each is weakly fair, the mutex is not
SpecLive ==
    /\ Init
    /\ [][NextLive]_vars
    /\ WF_vars(UpdaterLive)
    /\ WF_vars(RendererLive)

-----------------------------------------------------------------------------
(* Properties of the encoder, checked under SpecEnc *)

\* the second-range code the parity of fragment 10 covers
RangeCode(second) == IF second <= 20 THEN 0 ELSE IF second <= 40 THEN 1 ELSE 3

\* even parity of the population counts of a sequence of operands
RECURSIVE PopParity(_)
PopParity(ops) ==
    IF ops = <<>> THEN 0
    ELSE (CountOnes(Head(ops)) + PopParity(Tail(ops))) % 2

BitOf(b) == IF b THEN 1 ELSE 0

\* C1: at seconds 10, 30 and 50 the symbol is 2*pm + p, p the even parity of the
\* population counts of {second-range code, hour12, minute, weekday}
C1_Fragment10Parity ==
    (sym # Unset /\ t.second \in {10, 30, 50}) =>
        sym = Some(2 * BitOf(Hour12(t).pm)
                   + PopParity(<<RangeCode(t.second), Hour12(t).hour,
                                 t.minute, Weekday(t)>>))

\* C2: at seconds 19, 39 and 59 bit 1 of the symbol is (year >> 6) & 1 and bit 0
\* is the even parity of the population counts of {day, month, year & 0b111111}
C2_Fragment19Parity ==
    (sym # Unset /\ t.second \in {19, 39, 59}) =>
        sym = Some(2 * (((t.year - 2000) \div 64) % 2)
                   + PopParity(<<t.day, t.month, (t.year - 2000) % 64>>))

\* the fragments fs of the current frame have been transmitted
Sent(fs) == \A f \in fs : frame[f] # Unset

\* the symbols of the fragments fs are 2-bit values
TwoBit(fs) == \A f \in fs : frame[f].tag = "Some" /\ frame[f].val \in 0..3

\* the symbols of the fragments in fs (a sequence), concatenated
\* most-significant-first
RECURSIVE Concat(_)
Concat(fs) ==
    IF fs = <<>> THEN 0
    ELSE 4 * Concat(SubSeq(fs, 1, Len(fs) - 1)) + frame[fs[Len(fs)]].val

\* C3: the 2-bit symbols of a field's fragments, concatenated
\* most-significant-first, give the field back: hour12 from 3,4; minute from
\* 5,6,7; day from 11,12,13; month from 14,15; the two-digit year from bit 1 of
\* fragment 19 followed by 16,17,18; and each of the symbols is in 0..3
C3_FieldsLossless ==
    /\ Sent({3, 4}) =>
          TwoBit({3, 4}) /\ Concat(<<3, 4>>) = Hour12(t).hour
    /\ Sent({5, 6, 7}) =>
          TwoBit({5, 6, 7}) /\ Concat(<<5, 6, 7>>) = t.minute
    /\ Sent({11, 12, 13}) =>
          TwoBit({11, 12, 13}) /\ Concat(<<11, 12, 13>>) = t.day
    /\ Sent({14, 15}) =>
          TwoBit({14, 15}) /\ Concat(<<14, 15>>) = t.month
    /\ Sent({16, 17, 18, 19}) =>
          /\ TwoBit({16, 17, 18, 19})
          /\ 64 * (frame[19].val \div 2) + Concat(<<16, 17, 18>>)
                = t.year - 2000

\* C3's case: the date fragments 11..19 of 31 December 2099 (year 99, top bit
\* set) have all been transmitted
C3_Witness ==
    /\ Sent(11..19)
    /\ t.year = 2099 /\ t.month = 12 /\ t.day = 31
    /\ frame[19].val \div 2 = 1

\* C4: signal_width returns None exactly at seconds 0, 20, 40 and otherwise
\* 100 * (symbol + 1) with the symbol in 0..3; no unreachable!() arm is reached
C4_SignalWidthTotal ==
    sym # Unset =>
        /\ sym # Panic
        /\ width # Panic
        /\ (width = None) <=> (t.second % 20 = 0)
        /\ (sym = None) <=> (t.second % 20 = 0)
        /\ t.second % 20 # 0 =>
              /\ sym.tag = "Some"
              /\ sym.val \in 0..3
              /\ width = Some(100 * (sym.val + 1))
              /\ width.val \in {100, 200, 300, 400}

\* C4's case: the widest pulse, from the check symbol of second 50
C4_Witness == t.second = 50 /\ sym = Some(3) /\ width = Some(400)

\* C5: the symbol is 0, 1, 2 at seconds 1, 21, 41 (100, 200, 300 ms), whatever
\* the calendar fields; these are the only seconds of fragment 1
C5_SuperFrameId ==
    sym # Unset =>
        /\ t.second = 1 => sym = Some(0) /\ width = Some(100)
        /\ t.second = 21 => sym = Some(1) /\ width = Some(200)
        /\ t.second = 41 => sym = Some(2) /\ width = Some(300)
        /\ (t.second % 20 = 1) <=> (t.second \in {1, 21, 41})

\* C5's case: 2024-03-15 14:07:21
C5_Witness ==
    /\ t = Timestamp(2024, 3, 15, 14, 7, 21)
    /\ sym = Some(1)
    /\ width = Some(200)

-----------------------------------------------------------------------------
(* Properties of the wave generator, checked under Spec *)

\* C6: pivot is the last update's pulse width * 44100 / 1000, truncated, with
\* no 32-bit overflow: 100 -> 4410, 200 -> 8820, 300 -> 13230, 400 -> 17640,
\* none -> 0; it is 0 until the first update
C6_Pivot ==
    /\ ~overflowed
    /\ pivot \in {0, 4410, 8820, 13230, 17640}
    /\ lastWidth = Unset => pivot = 0
    /\ lastWidth = None => pivot = 0
    /\ lastWidth = Some(100) => pivot = 4410
    /\ lastWidth = Some(200) => pivot = 8820
    /\ lastWidth = Some(300) => pivot = 13230
    /\ lastWidth = Some(400) => pivot = 17640
    /\ lastWidth.tag \in {"Unset", "None", "Some"}
    /\ lastWidth.tag = "Some" =>
          /\ pivot * 1000 <= lastWidth.val * 44100
          /\ lastWidth.val * 44100 < (pivot + 1) * 1000

\* C6's case: an update for a 400 ms pulse has completed
C6_Witness == upc = "sleep" /\ lastWidth = Some(400) /\ pivot = 17640

\* C7: after an update that set pivot = p > 0, exactly the first p render calls
\* return 0.0 and every later one the carrier
C7_FirstPivotCallsMuted ==
    (rpc = "unlock" /\ pivot > 0 /\ lastWidth.tag = "Some") =>
        /\ rendered <= pivot => out = Muted
        /\ rendered > pivot => out.kind = "carrier"

\* C8: after an update from a timestamp with second 0, 20 or 40 pivot is 0 and
\* every render call returns the carrier, never 0.0
C8_BlankIsTone ==
    lastBlank =>
        /\ lastWidth = None
        /\ pivot = 0
        /\ rpc = "unlock" => out.kind = "carrier"

\* C8's case: a render call answered after a blank update
C8_Witness ==
    /\ lastBlank
    /\ rpc = "unlock"
    /\ rendered = 2
    /\ out = Carrier(2)

\* C9: a render call issued while the updating flag is set does not wait for
\* the mutex and returns the placeholder 1.0
C9_PlaceholderNoWait ==
    /\ (rpc = "lock" /\ issuedInUpdate /\ updating) => RenderMayLock
    /\ (rpc = "unlock" /\ issuedInUpdate) => out = Placeholder

\* the update has written the new pivot and not yet reset the counter
Torn == upc = "reset"

\* C10: a render call never reads a new pivot with a counter not yet reset:
\* while the renderer is in BPCWaveInner::next the updater is not inside update
C10_PivotCounterTogether ==
    rpc \in {"check", "sample"} =>
        /\ ~Torn
        /\ upc \notin {"store_true", "pivot", "reset", "store_false", "unlock"}
        /\ ~updating

\* C10's case: a render call reads the pair right after an update: the new
\* pivot with the counter reset
C10_Witness ==
    /\ rpc = "sample"
    /\ lastWidth = Some(200)
    /\ pivot = 8820
    /\ num_samples = 0
    /\ upc \in {"sleep", "now", "lock"}

\* C11: no render call and no update panics, the mutex is never poisoned, and
\* every answered render call returns Some(sample): signal_width and the
\* multiplication of update succeed on the clock reading of every update
C11_NeverFails ==
    /\ upc # "panicked"
    /\ rpc # "panicked"
    /\ ~poisoned
    /\ ~overflowed
    /\ rpc = "unlock" => out.kind \in {"muted", "carrier", "placeholder"}
    /\ upc = "pivot" =>
          /\ SignalWidth(unow) # Panic
          /\ ~MulOverflows(UnwrapOr0(SignalWidth(unow)), SAMPLE_RATE)

\* C11's case: a render call is answered after the update of the widest pulse
\* while the updater is back at the mutex for the next update
C11_Witness ==
    /\ rpc = "unlock"
    /\ out = Muted
    /\ lastWidth = Some(400)
    /\ upc = "lock"

\* C17: the updating flag is set only while the updater holds the mutex, so
\* whenever the renderer evaluates the flag it is false, and no render call
\* returns the placeholder 1.0
C17_FlagNeverSeen ==
    /\ updating => (owner = "updater" /\ upc \in {"pivot", "reset", "store_false"})
    /\ rpc = "check" => (owner = "renderer" /\ ~updating)
    /\ out # Placeholder

\* C17's case: a render call issued while the flag was set evaluates the flag
\* after the update has finished
C17_Witness ==
    /\ rpc = "check"
    /\ issuedInUpdate
    /\ ~updating
    /\ lastWidth # Unset

\* the step is a render call's increment
IsRender == rpc = "sample" /\ rpc' = "unlock"

\* the frame conditions of one step on pivot, the counter and the flag
FrameStep ==
    /\ IsRender =>
          /\ num_samples' = num_samples + 1
          /\ pivot' = pivot
          /\ updating' = updating
    /\ num_samples' # num_samples =>
          \/ IsRender
          \/ upc = "reset" /\ upc' = "store_false" /\ num_samples' = 0
    /\ pivot' # pivot => (upc = "pivot" /\ upc' = "reset")
    /\ (upc = "reset" /\ upc' # upc) => num_samples' = 0
    /\ (upc = "unlock" /\ upc' = "sleep") => ~updating'
    /\ updating' # updating =>
          (upc \in {"store_true", "store_false"} /\ upc' # upc)

\* C18: the counter changes only by a render call's increment of exactly 1,
\* which leaves pivot and the flag alone, and by update's reset to exactly 0;
\* pivot changes only in update; update leaves the flag false on exit; so the
\* counter is the number of render calls since the last update
C18_FrameConditions == [](num_samples = rendered) /\ [][FrameStep]_vars

\* C18's case: three render calls answered since an update reset the counter
C18_Witness ==
    /\ rpc = "unlock"
    /\ lastWidth = Some(100)
    /\ rendered = 3
    /\ num_samples = 3

-----------------------------------------------------------------------------
(* The envelope of one pulse, checked under SpecWave *)

-----------------------------------------------------------------------------
(* The updater loop against the wall clock: the sleep of BPCWave::new, the   *)
(* lateness of its wake-ups and the time it waits for the mutex              *)

NanosPerSec == 1000000000

\* the clock c, d nanoseconds later
AddNanos(c, d) ==
    LET n == c.ns + d
    IN  Time(c.sec + n \div NanosPerSec, n % NanosPerSec)

\* a faulty reading: the milliseconds of the second, as microseconds
SubsecMillisAsMicros(now) == (now.ns \div 1000000) * 1000

\* now.timestamp_subsec_micros()
SubsecMicros(now) == now.ns \div 1000

\* a faulty delay: the milliseconds left of the second, slept as microseconds
SleepDeltaInMillis(now) == 1000 - now.ns \div 1000000

\* let delta = 1_000_000 - now.timestamp_subsec_micros()
SleepDelta(now) == 1000000 - SubsecMicros(now)

\* the time thread::sleep(Duration::from_micros(delta)) returns at, at the
\* earliest
SleepTarget(now) == AddNanos(now, SleepDelta(now) * 1000)

\* the delays of the scheduler, in nanoseconds: the time before a clock
\* reading, the lateness of a wake-up, the wait for the mutex
Delays ==
    {0, 1, 999, 1000, 22676, 1000000, 500000000, 999000000, 999999000,
     999999999, 1000000000}

\* the times the generator is created at
StartTimes == {Time(0, n) : n \in {0, 1, 999, 500000000, 999999999}}

InitTime ==
    /\ t = NoTime
    /\ sym = Unset
    /\ width = Unset
    /\ frame = [f \in Fragments |-> Unset]
    /\ InitWave
    /\ \E c \in StartTimes : InitTimed(c)

\* let now = cst(); let delta = 1_000_000 - now.timestamp_subsec_micros(),
\* some time after the thread started or the last update returned
TRead ==
    /\ tpc = "read"
    /\ \E e \in Delays :
          LET c == AddNanos(clock, e)
          IN  /\ c.sec <= MaxSecond
              /\ clock' = c
              /\ tnow' = c
              /\ loopOnTime' = (loopOnTime /\ c.sec = clock.sec)
    /\ tpc' = "sleep"
    /\ UNCHANGED <<encVars, waveVars, waited, updates, onTime>>

\* thread::sleep(Duration::from_micros(delta as u64)) returns, not before the
\* delay has passed
TSleep ==
    /\ tpc = "sleep"
    /\ \E late \in Delays :
          LET c == AddNanos(SleepTarget(tnow), late)
          IN  /\ c.sec <= MaxSecond
              /\ clock' = c
              /\ onTime' = (onTime /\ c.sec <= tnow.sec + 1)
    /\ tpc' = "update"
    /\ UNCHANGED <<encVars, waveVars, waited, tnow, updates, loopOnTime>>

\* let now = cst(); inner.lock().unwrap().update(now): the timestamp is read,
\* the mutex is waited for, the update is made
TUpdate ==
    /\ tpc = "update"
    /\ \E w \in Delays :
          LET c == AddNanos(clock, w)
          IN  /\ c.sec <= MaxSecond
              /\ clock' = c
              /\ onTime' = (onTime /\ c.sec <= tnow.sec + 1)
    /\ updates' = [updates EXCEPT ![clock.sec] = @ + 1]
    /\ tpc' = "read"
    /\ UNCHANGED <<encVars, waveVars, waited, tnow, loopOnTime>>

NextTime ==
    \/ TRead
    \/ TSleep
    \/ TUpdate

SpecTime == InitTime /\ [][NextTime]_vars

-----------------------------------------------------------------------------
(* The lock discipline and the progress of the updater, checked under        *)
(* SpecLive                                                                  *)

\* the updater is inside update, the renderer inside BPCWaveInner::next
UpdaterInside == upc \in {"store_true", "pivot", "reset", "store_false", "unlock"}
RendererInside == rpc \in {"check", "sample", "unlock"}

\* the mutex is held exactly across update and across one sample's
\* read/increment, by one thread at a time, and some thread can always step
Discipline ==
    /\ (owner = "updater") <=> UpdaterInside
    /\ (owner = "renderer") <=> RendererInside
    /\ ~(UpdaterInside /\ RendererInside)
    /\ upc \in {"sleep", "now", "lock"} => owner # "updater"
    /\ ENABLED NextLive

\* C15 as stated: the lock discipline, and a render call waits for at most one
\* update to finish
C15_WaitsForOneUpdate == Discipline /\ waited <= 1

\* C15, amended: the lock discipline, and a render call is kept waiting only
\* while an update call is running (by any number of updates in turn)
C15_LockDiscipline ==
    /\ Discipline
    /\ (rpc = "lock" /\ ~ENABLED RLock) => (owner = "updater" /\ UpdaterInside)

\* C15's case: a render call still waiting after a second update started
C15_Witness ==
    /\ rpc = "lock"
    /\ waited = 1
    /\ owner = "updater"
    /\ upc = "reset"

\* C16 as stated: under weak fairness of both threads the updater waiting for
\* the mutex eventually acquires it and completes the update
C16_UpdaterProgress == (upc = "lock") ~> (upc = "unlock")

\* C16, amended: the updater waiting for the mutex acquires it unless the
\* renderer takes the mutex again, and once it holds the mutex it completes
\* the update (pivot written, counter reset, flag cleared) and releases it
C16_ProgressUnlessStarved ==
    /\ (upc = "lock") ~> (upc = "store_true" \/ owner = "renderer")
    /\ (upc = "store_true") ~>
          (upc = "sleep" /\ owner # "updater" /\ lastWidth # Unset)

\* C16's case: the updater has woken and waits for the mutex, which the
\* renderer holds
C16_Witness ==
    /\ upc = "lock"
    /\ unow # NoTime
    /\ owner = "renderer"
    /\ lastWidth # Unset

-----------------------------------------------------------------------------
(* Properties of the updater loop against the wall clock, checked under      *)
(* SpecTime                                                                  *)

\* C12: in every cycle the delay is 1_000_000 - subsec_micros of the cycle's
\* own reading, within 1..1_000_000, and the reading plus the delay is at or
\* after the next second boundary and less than 1/44100 s after it, whatever
\* the lateness of the wake-ups before
C12_NoDrift ==
    tpc = "sleep" =>
        /\ SleepDelta(tnow) = 1000000 - tnow.ns \div 1000
        /\ SleepDelta(tnow) \in 1..1000000
        /\ SleepTarget(tnow).sec = tnow.sec + 1
        /\ SleepTarget(tnow).ns <= (NanosPerSec - 1) \div SAMPLE_RATE

\* C12's case: after a wake-up more than a second late, a reading in the last
\* microsecond of a second: the delay is 1 us, the target 999 ns past the
\* boundary
C12_Witness ==
    /\ tpc = "sleep"
    /\ ~onTime
    /\ tnow.ns = 999999999
    /\ SleepDelta(tnow) = 1
    /\ SleepTarget(tnow) = Time(tnow.sec + 1, 999)

\* every second after the one of the creation that has passed got exactly one
\* update, computed from a timestamp read in it, and no second got two
ExactlyOnce ==
    \A s \in 1..MaxSecond :
        /\ updates[s] <= 1
        /\ s < clock.sec => updates[s] = 1

\* C13 as stated: with every wake-up and lock acquisition less than 1 s after
\* the targeted boundary, every second gets exactly one update
C13_OncePerSecond == onTime => ExactlyOnce

\* C13, amended: with that, and with every cycle's first clock reading taken
\* in the second the generator was created or last updated in, every second
\* gets exactly one update
C13_OncePerSecondInTime == (onTime /\ loopOnTime) => ExactlyOnce

\* C13's case: three seconds in a row got their update, the last one more than
\* half a second after its boundary
C13_Witness ==
    /\ onTime
    /\ loopOnTime
    /\ tpc = "read"
    /\ clock.sec = 3
    /\ clock.ns >= 500000000
    /\ updates[1] = 1
    /\ updates[2] = 1
    /\ updates[3] = 1

====
